---- MODULE Spec2Model ----
(***************************************************************************)
(* StencilSnap backend (src/backend/main.py): the POST /stencil handler    *)
(* and the core pipeline high_quality_stencil, stage by stage.             *)
(***************************************************************************)
EXTENDS Integers, Sequences, FiniteSets

(***************************************************************************)
(* IEEE-754 binary64 arithmetic, as far as the normalizer needs it:        *)
(* 1400 / max_side (correctly rounded), w * scale (correctly rounded) and  *)
(* int(...) (truncation).  A positive double is [m, e]: m the 53 bits of   *)
(* the significand, least significant first, and the value is m * 2^e.     *)
(***************************************************************************)
MantissaBits == 53

\* the significand is handled in limbs of LimbBits bits, so that a product of
\* a limb and an image side stays below 2^31
LimbBits == 13

LimbBase == 8192

RECURSIVE BitsToInt(_)
BitsToInt(bits) ==
    IF bits = <<>> THEN 0 ELSE Head(bits) + 2 * BitsToInt(Tail(bits))

RECURSIVE Pow2(_)
Pow2(n) ==
    IF n = 0 THEN 1 ELSE 2 * Pow2(n - 1)

\* bits + 1, least significant bit first; the result may be one bit longer
RECURSIVE IncBits(_)
IncBits(bits) ==
    IF bits = <<>> THEN <<1>>
    ELSE IF Head(bits) = 0 THEN <<1>> \o Tail(bits)
    ELSE <<0>> \o IncBits(Tail(bits))

\* the bits (least significant first) of the number whose limbs are `limbs`
LimbsToBits(limbs) ==
    [i \in 1..(LimbBits * Len(limbs)) |->
        (limbs[((i - 1) \div LimbBits) + 1] \div Pow2((i - 1) % LimbBits)) % 2]

\* round-to-nearest-even of the integer `bits` (LSB first, top bit set) to 53
\* significant bits; e is the exponent of its least significant bit
RoundToDouble(bits, e) ==
    LET L == Len(bits)
        D == L - MantissaBits
    IN  IF D <= 0
        THEN [m |-> [i \in 1..MantissaBits |-> IF i <= -D THEN 0 ELSE bits[i + D]],
              e |-> e + D]
        ELSE LET kept   == SubSeq(bits, D + 1, L)
                 guard  == bits[D]
                 sticky == \E i \in 1..(D - 1) : bits[i] = 1
                 up     == guard = 1 /\ (sticky \/ kept[1] = 1)
                 inc    == IF up THEN IncBits(kept) ELSE kept
             IN  IF Len(inc) > MantissaBits
                 THEN [m |-> Tail(inc), e |-> e + D + 1]
                 ELSE [m |-> inc, e |-> e + D]

\* the number of doublings that bring r (0 < r < b) to at least b
RECURSIVE LeadShift(_, _)
LeadShift(r, b) ==
    IF 2 * r >= b THEN 1 ELSE 1 + LeadShift(2 * r, b)

\* a / b as Python's true division of two ints gives it, for 0 < a < b < 2^17:
\* the leading bit, then four limbs of quotient bits by long division, then
\* the rounding on the remainder
FloatDiv(a, b) ==
    LET k  == LeadShift(a, b)
        r0 == a * Pow2(k) - b
        l1 == (r0 * LimbBase) \div b
        r1 == (r0 * LimbBase) % b
        l2 == (r1 * LimbBase) \div b
        r2 == (r1 * LimbBase) % b
        l3 == (r2 * LimbBase) \div b
        r3 == (r2 * LimbBase) % b
        l4 == (r3 * LimbBase) \div b
        r4 == (r3 * LimbBase) % b
        m  == SubSeq(LimbsToBits(<<l4, l3, l2, l1, 1>>), 1, MantissaBits)
        up == 2 * r4 > b \/ (2 * r4 = b /\ m[1] = 1)
        inc == IF up THEN IncBits(m) ELSE m
    IN  IF Len(inc) > MantissaBits
        THEN [m |-> Tail(inc), e |-> 1 - k - MantissaBits]
        ELSE [m |-> inc, e |-> -k - (MantissaBits - 1)]

\* the limbs (least significant first) of n * limbs + carry
RECURSIVE MulLimbs(_, _, _)
MulLimbs(limbs, n, carry) ==
    IF limbs = <<>>
    THEN IF carry = 0 THEN <<>> ELSE <<carry % LimbBase>> \o MulLimbs(<<>>, n, carry \div LimbBase)
    ELSE LET t == n * Head(limbs) + carry
         IN  <<t % LimbBase>> \o MulLimbs(Tail(limbs), n, t \div LimbBase)

\* the number of bits of n > 0
RECURSIVE BitLen(_)
BitLen(n) ==
    IF n = 0 THEN 0 ELSE 1 + BitLen(n \div 2)

\* n * x as Python's int * float gives it, for an int 0 < n < 2^17
FloatMul(n, x) ==
    LET limbs == [j \in 1..5 |->
                    BitsToInt(SubSeq(x.m, LimbBits * (j - 1) + 1,
                                     IF j = 5 THEN MantissaBits ELSE LimbBits * j))]
        prod  == MulLimbs(limbs, n, 0)
        top   == LimbBits * (Len(prod) - 1) + BitLen(prod[Len(prod)])
    IN  RoundToDouble(SubSeq(LimbsToBits(prod), 1, top), x.e)

\* int(x) for a double x >= 0 below 2^31
FloatTrunc(x) ==
    IF x.e >= 0 THEN BitsToInt(x.m) * Pow2(x.e)
    ELSE IF -x.e >= MantissaBits THEN 0
    ELSE BitsToInt(SubSeq(x.m, 1 - x.e, MantissaBits))

(***************************************************************************)
(* Bounds of the model.                                                    *)
(***************************************************************************)
\* image sides 1..MaxSmallSide are tried beside the sides around 1400
MaxSmallSide == 2

\* the out-of-range values of lineWeight and detail tried lie ParamSlack
\* below 1 and ParamSlack above 8
ParamSlack == 1

\* sides around and above the normalizer's limit; 2099 is a side for which
\* 2099 * (1400 / 2099) is 1399.9999999999998 in binary64
LargeSides == {1400, 1401, 2099, 3000}

Sides == (1..MaxSmallSide) \cup LargeSides

\* the values of lineWeight tried: both ends of the range, an even size, and
\* a value off either end
LineWeights == {1 - ParamSlack, 1, 2, 8, 8 + ParamSlack}

\* the values of detail tried: the whole range, a value off either end, and
\* one far off
Details == {1 - ParamSlack} \cup (1..8) \cup {8 + ParamSlack, 99}

(***************************************************************************)
(* Images.  An image is [h, w, px]; px is the sequence of its rows, or <<>> *)
(* when the sample values are not tracked (only the shape is).             *)
(***************************************************************************)
NoImage == [h |-> 0, w |-> 0, px |-> <<>>]

ShapeOnly(h, w) == [h |-> h, w |-> w, px |-> <<>>]

\* PURPLE = (140, 90, 255), RGB
PURPLE == <<140, 90, 255>>

max(a, b) == IF a >= b THEN a ELSE b

min(a, b) == IF a <= b THEN a ELSE b

\* a clamp that lost its lower bound: a mutation that C2 must not survive
clamp_upper_only(v, a, b) == min(b, v)

\* def clamp(v, a, b): return max(a, min(b, v))
clamp(v, a, b) ==
    max(a, min(b, v))

Tracked(img) == img.px # <<>>

\* the h x w image whose sample at row y, column x is f[y, x]
Image(h, w, f) ==
    [h  |-> h,
     w  |-> w,
     px |-> SubSeq([y \in 1..h |-> SubSeq([x \in 1..w |-> f[y, x]], 1, w)], 1, h)]

Inside(img, y, x) == y >= 1 /\ y <= img.h /\ x >= 1 /\ x <= img.w

Pixels(img) == (1..img.h) \X (1..img.w)

\* the number of ink (non-zero) samples of a mask
InkCount(mask) == Cardinality({p \in Pixels(mask) : mask.px[p[1]][p[2]] # 0})

\* cv2.bitwise_or of two masks
BitwiseOr(a, b) ==
    IF ~Tracked(a) \/ ~Tracked(b) THEN ShapeOnly(a.h, a.w)
    ELSE Image(a.h, a.w,
               [y \in 1..a.h, x \in 1..a.w |-> IF a.px[y][x] # 0 \/ b.px[y][x] # 0 THEN 255 ELSE 0])

\* the shapes whose sample values are tracked: a single row, and a tile that
\* holds two of the smallest halftone blocks side by side
RowLen == 9

TileHeight == 4

TileWidth == 8

PixelShapes == {<<1, RowLen>>, <<TileHeight, TileWidth>>}

\* the shapes of the images tried
Shapes == (Sides \X Sides) \cup PixelShapes

\* the sample values tried
Palette == {0, 255}

\* the tracked images of a shape: one sample differing from the background,
\* and two vertical bands (one band when the first spans the width)
TrackedImages(h, w) ==
    LET spotted == {Image(h, w, [y \in 1..h, x \in 1..w |-> IF <<y, x>> = t[3] THEN t[2] ELSE t[1]]) :
                        t \in {u \in Palette \X Palette \X ((1..h) \X (1..w)) : u[1] # u[2]}}
        banded  == {Image(h, w, [y \in 1..h, x \in 1..w |-> IF x <= t[3] THEN t[1] ELSE t[2]]) :
                        t \in {u \in Palette \X Palette \X (1..w) : u[1] # u[2]}}
    IN  spotted \cup banded

(***************************************************************************)
(* Line Extractor: cv2.Canny(sharp, t1, t2) (3 x 3 Sobel, L1 magnitude) and  *)
(* cv2.adaptiveThreshold(sharp, 255, ADAPTIVE_THRESH_GAUSSIAN_C,           *)
(* THRESH_BINARY, blockSize=block, C=2).                                   *)
(***************************************************************************)
Abs(n) == IF n < 0 THEN -n ELSE n

\* the sample at (y, x) with the border replicated (BORDER_REPLICATE)
Replicated(img, y, x) == img.px[max(1, min(img.h, y))][max(1, min(img.w, x))]

\* the 3 x 3 Sobel derivatives, as [dx, dy] per pixel
Sobel(img) ==
    Image(img.h, img.w,
          [y \in 1..img.h, x \in 1..img.w |->
              [dx |-> (Replicated(img, y - 1, x + 1) + 2 * Replicated(img, y, x + 1)
                          + Replicated(img, y + 1, x + 1))
                      - (Replicated(img, y - 1, x - 1) + 2 * Replicated(img, y, x - 1)
                          + Replicated(img, y + 1, x - 1)),
               dy |-> (Replicated(img, y + 1, x - 1) + 2 * Replicated(img, y + 1, x)
                          + Replicated(img, y + 1, x + 1))
                      - (Replicated(img, y - 1, x - 1) + 2 * Replicated(img, y - 1, x)
                          + Replicated(img, y - 1, x + 1))]])

\* |dx| + |dy|
Magnitude(grad) ==
    Image(grad.h, grad.w,
          [y \in 1..grad.h, x \in 1..grad.w |-> Abs(grad.px[y][x].dx) + Abs(grad.px[y][x].dy)])

\* the magnitude buffer is zero outside the image
MagAt(mag, y, x) == IF Inside(mag, y, x) THEN mag.px[y][x] ELSE 0

\* tan(22.5 deg) in 1/2^15
TG22 == 13573

\* non-maximum suppression of the pixel (y, x): a maximum along its gradient
\* direction (horizontal, vertical or one of the diagonals)
LocalMaximum(grad, mag, y, x) ==
    LET xs    == grad.px[y][x].dx
        ys    == grad.px[y][x].dy
        m     == mag.px[y][x]
        ax    == Abs(xs)
        ay    == Abs(ys) * 32768
        tg22x == ax * TG22
        tg67x == tg22x + ax * 65536
        s     == IF (xs < 0) # (ys < 0) THEN 1 ELSE -1
    IN  IF ay < tg22x
        THEN m > MagAt(mag, y, x - 1) /\ m >= MagAt(mag, y, x + 1)
        ELSE IF ay > tg67x
        THEN m > MagAt(mag, y - 1, x) /\ m >= MagAt(mag, y + 1, x)
        ELSE m > MagAt(mag, y - 1, x - s) /\ m > MagAt(mag, y + 1, x + s)

Neighbours8(p) ==
    {<<p[1] + dy, p[2] + dx>> : <<dy, dx>> \in ({-1, 0, 1} \X {-1, 0, 1}) \ {<<0, 0>>}}

\* hysteresis: the candidates reached from the edges E through 8-neighbours
RECURSIVE Hysteresis(_, _)
Hysteresis(E, C) ==
    LET more == {c \in C \ E : Neighbours8(c) \cap E # {}}
    IN  IF more = {} THEN E ELSE Hysteresis(E \cup more, C)

Canny(img, low, high) ==
    IF ~Tracked(img) THEN img
    ELSE LET grad   == Sobel(img)
             mag    == Magnitude(grad)
             kept   == {p \in Pixels(img) :
                           mag.px[p[1]][p[2]] > low /\ LocalMaximum(grad, mag, p[1], p[2])}
             strong == {p \in kept : mag.px[p[1]][p[2]] > high}
             edge   == Hysteresis(strong, kept)
         IN  Image(img.h, img.w, [y \in 1..img.h, x \in 1..img.w |-> IF <<y, x>> \in edge THEN 255 ELSE 0])

\* the Gaussian kernel of the given size with sigma = 0.3*((size-1)*0.5 - 1) + 0.8,
\* centre first, in 1/GaussUnit
GaussUnit == 2048

GaussKernel(size) ==
    CASE size = 15 -> <<314, 293, 235, 162, 97, 50, 22, 8>>
      [] size = 17 -> <<284, 266, 223, 166, 109, 64, 33, 15, 6>>
      [] size = 19 -> <<256, 244, 211, 165, 117, 76, 44, 23, 11, 5>>
      [] size = 21 -> <<232, 225, 199, 162, 122, 84, 54, 32, 17, 9, 4>>
      [] size = 23 -> <<212, 208, 188, 158, 124, 91, 62, 40, 24, 13, 7, 3>>
      [] size = 25 -> <<200, 194, 177, 153, 124, 95, 68, 47, 30, 18, 10, 5, 3>>
      [] size = 27 -> <<188, 181, 168, 147, 123, 98, 73, 52, 36, 23, 14, 8, 5, 2>>
      [] size = 29 -> <<176, 170, 159, 142, 121, 99, 77, 57, 41, 28, 18, 11, 7, 4, 2>>
      [] size = 31 -> <<164, 160, 151, 137, 119, 99, 80, 61, 46, 32, 22, 15, 9, 6, 3, 2>>

RECURSIVE SumSeq(_)
SumSeq(s) ==
    IF s = <<>> THEN 0 ELSE Head(s) + SumSeq(Tail(s))

\* the sum of k[|o|] * f[o] over the kernel's offsets o
Weighted(k, half, f) ==
    SumSeq(SubSeq([i \in 1..(2 * half + 1) |-> k[Abs(i - half - 1) + 1] * f[i - half - 1]],
                  1, 2 * half + 1))

\* n / d rounded to the nearest integer, halves to the even one (cvRound)
RoundDiv(n, d) ==
    LET q == n \div d
        r == n % d
    IN  IF 2 * r > d \/ (2 * r = d /\ q % 2 = 1) THEN q + 1 ELSE q

\* the Gaussian-weighted local mean over size x size, border replicated,
\* rounded to 8 bits
GaussianMean(img, size) ==
    LET k    == GaussKernel(size)
        half == size \div 2
        rows == Image(img.h, img.w,
                      [y \in 1..img.h, x \in 1..img.w |->
                          Weighted(k, half,
                                   [o \in (-half)..half |-> Replicated(img, y, x + o)])])
    IN  Image(img.h, img.w,
              [y \in 1..img.h, x \in 1..img.w |->
                  RoundDiv(Weighted(k, half,
                                    [o \in (-half)..half |-> Replicated(rows, y + o, x)]),
                           GaussUnit * GaussUnit)])

\* THRESH_BINARY against mean - C: 255 where src > mean - C, else 0
AdaptiveThreshold(img, size, C) ==
    IF ~Tracked(img) THEN img
    ELSE LET mean == GaussianMean(img, size)
         IN  Image(img.h, img.w,
                   [y \in 1..img.h, x \in 1..img.w |-> IF img.px[y][x] > mean.px[y][x] - C THEN 255 ELSE 0])

\* th_inv = 255 - th
Invert(mask) ==
    IF ~Tracked(mask) THEN mask
    ELSE Image(mask.h, mask.w, [y \in 1..mask.h, x \in 1..mask.w |-> 255 - mask.px[y][x]])

(***************************************************************************)
(* Line Renderer: cv2.getStructuringElement(cv2.MORPH_ELLIPSE, (k, k)) and   *)
(* cv2.dilate(sk, dil_kernel, iterations=1).                               *)
(***************************************************************************)
\* the integer nearest to sqrt(n)
RoundSqrt(n) ==
    CHOOSE m \in 0..n :
        /\ m = 0 \/ (2 * m - 1) * (2 * m - 1) <= 4 * n
        /\ 4 * n < (2 * m + 1) * (2 * m + 1)

\* row i, column j (from 0) of the k x k elliptical structuring element: a
\* 1 x 1 element is the full rectangle; otherwise, with r = c = k / 2, row i
\* holds the columns c - dx .. c + dx, dx = round(c * sqrt((r*r - dy*dy) / (r*r)))
EllipseHas(k, i, j) ==
    IF k = 1 THEN TRUE
    ELSE LET r  == k \div 2
             dy == i - r
             dx == RoundSqrt(r * r - dy * dy)
         IN  /\ j >= max(r - dx, 0)
             /\ j < (IF r + dx + 1 < k THEN r + dx + 1 ELSE k)

\* the offsets, from the anchor (k / 2, k / 2), of the element's ones
EllipseOffsets(k) ==
    {<<i - (k \div 2), j - (k \div 2)>> :
        <<i, j>> \in {q \in (0..(k - 1)) \X (0..(k - 1)) : EllipseHas(k, q[1], q[2])}}

\* cv2.dilate: the maximum over the element's ones; samples outside the
\* image do not count
Dilate(mask, offsets) ==
    IF ~Tracked(mask) THEN mask
    ELSE Image(mask.h, mask.w,
               [y \in 1..mask.h, x \in 1..mask.w |->
                   IF \E o \in offsets :
                          /\ Inside(mask, y + o[1], x + o[2])
                          /\ mask.px[y + o[1]][x + o[2]] # 0
                   THEN 255 ELSE 0])

\* cv2.erode: the minimum over the element's ones; samples outside the image
\* do not count
Erode(mask, offsets) ==
    IF ~Tracked(mask) THEN mask
    ELSE Image(mask.h, mask.w,
               [y \in 1..mask.h, x \in 1..mask.w |->
                   IF \A o \in offsets :
                          Inside(mask, y + o[1], x + o[2])
                              => mask.px[y + o[1]][x + o[2]] # 0
                   THEN 255 ELSE 0])

\* a renderer that erodes instead of dilating: a mutation that C8
\* must not survive
RenderLines_eroding(sk, lw) == Erode(sk, EllipseOffsets(clamp(lw, 1, 8)))

\* k = int(clamp(line_weight, 1, 8)); the dilation with the k x k ellipse
RenderLines(sk, lw) == Dilate(sk, EllipseOffsets(clamp(lw, 1, 8)))

\* t1 = int(40 + (8 - detail) * 6)
CannyLow(d) == 40 + (8 - d) * 6

\* t2 = int(120 + (8 - detail) * 8)
CannyHigh(d) == 120 + (8 - d) * 8

\* a neighbourhood size that shrinks by one per detail step: a mutation
\* that C10 must not survive
BlockSize_step_one(d) ==
    LET block == clamp(31 - d, 15, 31)
    IN  IF block % 2 = 0 THEN block + 1 ELSE block

\* block = int(clamp(31 - detail * 2, 15, 31)); if block % 2 == 0: block += 1
BlockSize(d) ==
    LET block == clamp(31 - d * 2, 15, 31)
    IN  IF block % 2 = 0 THEN block + 1 ELSE block

\* combo = cv2.bitwise_or(edges, th_inv)
InkCandidates(img, d) ==
    BitwiseOr(Canny(img, CannyLow(d), CannyHigh(d)),
              Invert(AdaptiveThreshold(img, BlockSize(d), 2)))

(***************************************************************************)
(* Morphological Cleaner and Skeletonizer.                                 *)
(***************************************************************************)
\* kernel = np.ones((3, 3)), anchored at its centre
Box3 == {-1, 0, 1} \X {-1, 0, 1}

\* MORPH_OPEN then MORPH_CLOSE, one iteration each
Clean(mask) == Erode(Dilate(Dilate(Erode(mask, Box3), Box3), Box3), Box3)

\* the 8 neighbours P2..P9 of (y, x), clockwise from the north, as 0/1;
\* outside the image is background
Ring(mask, y, x) ==
    LET on(yy, xx) == IF Inside(mask, yy, xx) /\ mask.px[yy][xx] # 0 THEN 1 ELSE 0
    IN  <<on(y - 1, x), on(y - 1, x + 1), on(y, x + 1), on(y + 1, x + 1),
          on(y + 1, x), on(y + 1, x - 1), on(y, x - 1), on(y - 1, x - 1)>>

\* one sub-iteration of Zhang and Suen's thinning
ThinOnce(mask, second) ==
    Image(mask.h, mask.w,
          [y \in 1..mask.h, x \in 1..mask.w |->
              IF mask.px[y][x] = 0 THEN 0
              ELSE LET n == Ring(mask, y, x)
                       B == n[1] + n[2] + n[3] + n[4] + n[5] + n[6] + n[7] + n[8]
                       A == Cardinality({i \in 1..8 : n[i] = 0 /\ n[(i % 8) + 1] = 1})
                       gone == /\ B >= 2 /\ B <= 6
                               /\ A = 1
                               /\ IF second
                                  THEN n[1] * n[3] * n[7] = 0 /\ n[1] * n[5] * n[7] = 0
                                  ELSE n[1] * n[3] * n[5] = 0 /\ n[3] * n[5] * n[7] = 0
                   IN  IF gone THEN 0 ELSE mask.px[y][x]])

RECURSIVE Thin(_)
Thin(mask) ==
    LET next == ThinOnce(ThinOnce(mask, FALSE), TRUE)
    IN  IF next = mask THEN mask ELSE Thin(next)

\* sk = skeletonize((combo > 0)) * 255
Skeleton(mask) ==
    IF ~Tracked(mask) THEN mask
    ELSE Thin(Image(mask.h, mask.w, [y \in 1..mask.h, x \in 1..mask.w |-> IF mask.px[y][x] > 0 THEN 255 ELSE 0]))

\* a shading strength that starts one detail step early: a mutation that C6
\* must not survive
ShadeStrength6_from_one(d) == clamp(d - 1, 0, 6)

(***************************************************************************)
(* Shader: add_halftone_shading(gray, strength).                           *)
(***************************************************************************)
\* shade_strength = clamp((detail - 2) / 6.0, 0.0, 1.0), in sixths: the
\* quotient by 6.0 and the product strength * 6 below are exact in binary64
\* for every detail in 1..8
ShadeStrength6(d) == clamp(d - 2, 0, 6)

\* block = int(clamp(10 - strength * 6, 4, 10))
HalftoneBlock(strength6) == clamp(10 - strength6, 4, 10)

\* inv = 1.0 - (gray / 255.0) ** 0.75, in 1/InvUnit, by sample value 0..255
InvUnit == 10000

InvGamma ==
    <<
       10000, 9843, 9736, 9643, 9557, 9476, 9399, 9326, 9255, 9186, 9119, 9053,
       8990, 8927, 8866, 8806, 8746, 8688, 8631, 8574, 8518, 8463, 8408, 8354,
       8301, 8248, 8196, 8144, 8093, 8042, 7991, 7941, 7892, 7842, 7793, 7745,
       7697, 7649, 7602, 7554, 7507, 7461, 7415, 7369, 7323, 7277, 7232, 7187,
       7142, 7098, 7053, 7009, 6965, 6922, 6878, 6835, 6792, 6749, 6706, 6664,
       6622, 6579, 6538, 6496, 6454, 6413, 6371, 6330, 6289, 6248, 6208, 6167,
       6127, 6086, 6046, 6006, 5966, 5927, 5887, 5847, 5808, 5769, 5730, 5691,
       5652, 5613, 5574, 5536, 5497, 5459, 5421, 5383, 5345, 5307, 5269, 5231,
       5194, 5156, 5119, 5082, 5044, 5007, 4970, 4933, 4896, 4860, 4823, 4786,
       4750, 4714, 4677, 4641, 4605, 4569, 4533, 4497, 4461, 4425, 4389, 4354,
       4318, 4283, 4247, 4212, 4177, 4142, 4107, 4071, 4036, 4002, 3967, 3932,
       3897, 3863, 3828, 3794, 3759, 3725, 3690, 3656, 3622, 3588, 3554, 3520,
       3486, 3452, 3418, 3384, 3350, 3317, 3283, 3250, 3216, 3183, 3149, 3116,
       3083, 3049, 3016, 2983, 2950, 2917, 2884, 2851, 2818, 2785, 2753, 2720,
       2687, 2655, 2622, 2590, 2557, 2525, 2492, 2460, 2428, 2395, 2363, 2331,
       2299, 2267, 2235, 2203, 2171, 2139, 2107, 2075, 2044, 2012, 1980, 1949,
       1917, 1885, 1854, 1822, 1791, 1760, 1728, 1697, 1666, 1634, 1603, 1572,
       1541, 1510, 1479, 1448, 1417, 1386, 1355, 1324, 1293, 1263, 1232, 1201,
       1171, 1140, 1109, 1079, 1048, 1018, 987, 957, 926, 896, 866, 835,
       805, 775, 745, 715, 684, 654, 624, 594, 564, 534, 504, 474,
       445, 415, 385, 355, 325, 296, 266, 236, 207, 177, 147, 118,
       88, 59, 29, 0 >>

InvImage(gray) ==
    Image(gray.h, gray.w, [y \in 1..gray.h, x \in 1..gray.w |-> InvGamma[gray.px[y][x] + 1]])

\* the length of the overlap of the intervals [a1, a2) and [b1, b2)
Overlap(a1, a2, b1, b2) == max(0, min(a2, b2) - max(a1, b1))

\* cv2.resize(img, (sw, sh), interpolation=cv2.INTER_AREA), shrinking: each
\* destination sample is the area-weighted mean of the source samples its
\* cell covers; a sample is kept as [sum, area], its value being sum / area
ResizeArea(img, sh, sw) ==
    Image(sh, sw,
          [i \in 1..sh, j \in 1..sw |->
              [sum  |-> SumSeq(SubSeq(
                          [n \in 1..(img.h * img.w) |->
                              LET y == ((n - 1) \div img.w) + 1
                                  x == ((n - 1) % img.w) + 1
                              IN  Overlap((i - 1) * img.h, i * img.h, (y - 1) * sh, y * sh)
                                    * Overlap((j - 1) * img.w, j * img.w, (x - 1) * sw, x * sw)
                                    * img.px[y][x]],
                          1, img.h * img.w)),
               area |-> img.h * img.w]])

\* cv2.resize(img, (w, h), interpolation=cv2.INTER_NEAREST): destination
\* (y, x) takes source (floor(y * sh / h), floor(x * sw / w)), from 0
ResizeNearest(img, h, w) ==
    Image(h, w,
          [y \in 1..h, x \in 1..w |->
              img.px[min(((y - 1) * img.h) \div h, img.h - 1) + 1]
                    [min(((x - 1) * img.w) \div w, img.w - 1) + 1]])

\* the index i of a row or column of n, reflected at the border
\* (BORDER_REFLECT_101)
Reflect101(i, n) ==
    IF n = 1 THEN 1
    ELSE IF i < 1 THEN 2 - i
    ELSE IF i > n THEN 2 * n - i
    ELSE i

\* cv2.GaussianBlur(img, (3, 3), 0) of an 8-bit image: the kernel
\* (1, 2, 1) / 4 along both axes, rounded
GaussianBlur3(img) ==
    Image(img.h, img.w,
          [y \in 1..img.h, x \in 1..img.w |->
              (SumSeq(SubSeq(
                  [n \in 1..9 |->
                      LET dy == ((n - 1) \div 3) - 1
                          dx == ((n - 1) % 3) - 1
                      IN  (2 - Abs(dy)) * (2 - Abs(dx))
                            * img.px[Reflect101(y + dy, img.h)][Reflect101(x + dx, img.w)]],
                  1, 9)) + 8) \div 16])

\* the synthesis of add_halftone_shading for strength > 0; <<>> when
\* cv2.resize raises for an empty destination (w // block or h // block is 0)
Halftone(gray, strength6) ==
    LET block == HalftoneBlock(strength6)
        sw    == gray.w \div block
        sh    == gray.h \div block
    IN  IF sw = 0 \/ sh = 0 THEN <<>>
        ELSE IF ~Tracked(gray) THEN <<gray>>
        ELSE LET small == ResizeArea(InvImage(gray), sh, sw)
                 \* thresh = 0.55; dots = (small > thresh) * 255
                 dots  == Image(sh, sw,
                                [y \in 1..sh, x \in 1..sw |->
                                    IF small.px[y][x].sum * 100
                                          > 55 * InvUnit * small.px[y][x].area
                                    THEN 255 ELSE 0])
                 soft  == GaussianBlur3(ResizeNearest(dots, gray.h, gray.w))
             IN  <<Image(gray.h, gray.w,
                         [y \in 1..gray.h, x \in 1..gray.w |->
                             IF soft.px[y][x] > 80 THEN 255 ELSE 0])>>

\* np.zeros_like(gray)
ZerosLike(gray) ==
    IF ~Tracked(gray) THEN gray
    ELSE Image(gray.h, gray.w, [y \in 1..gray.h, x \in 1..gray.w |-> 0])

(***************************************************************************)
(* Compositor and encoder.                                                 *)
(***************************************************************************)
White == <<255, 255, 255>>

\* (PURPLE[2], PURPLE[1], PURPLE[0]): the ink in BGR order
InkBGR == <<PURPLE[3], PURPLE[2], PURPLE[1]>>

\* out = white canvas of bgr's shape; out[ink_mask == 1] = ink
Composite(ink, h, w) ==
    IF ~Tracked(ink) THEN ShapeOnly(h, w)
    ELSE Image(h, w, [y \in 1..h, x \in 1..w |-> IF ink.px[y][x] > 0 THEN InkBGR ELSE White])

\* cv2.cvtColor(bgr, cv2.COLOR_BGR2RGB): the channels in reverse order
BGR2RGB(img) ==
    IF ~Tracked(img) THEN img
    ELSE Image(img.h, img.w,
               [y \in 1..img.h, x \in 1..img.w |-> <<img.px[y][x][3], img.px[y][x][2], img.px[y][x][1]>>])

\* an encoder that skips the channel swap: a mutation that C7 must not survive
bgr_to_png_bytes_no_swap(img) == img

\* bgr_to_png_bytes: PNG is lossless, the bytes stand for the RGB image
bgr_to_png_bytes(img) == BGR2RGB(img)

(***************************************************************************)
(* State.                                                                  *)
(***************************************************************************)
VARIABLES
    pc,             \* the statement about to run
    entry,          \* "handler": POST /stencil; "direct": a positional call of the core
    query,          \* the query string: lineWeight and detail, <<>> when absent
    args,           \* the arguments of the call of high_quality_stencil
    bgr,            \* the decoded image, then the normalized one
    h,              \* h, w = bgr.shape[:2]: the shape the core was given
    w,
    line_weight,    \* the core's local after clamping
    detail,         \* the core's local after clamping
    sharp,          \* the Enhancer's output
    t1,             \* Canny's low threshold
    t2,             \* Canny's high threshold
    block,          \* the adaptive threshold's neighbourhood size
    combo,          \* the ink-candidate mask, then the cleaned one
    sk,             \* the skeleton
    lines,          \* the line mask
    shade_strength, \* clamp((detail - 2) / 6.0, 0.0, 1.0), in sixths
    hblock,         \* the halftone block size, 0 while the synthesis has not run
    shade,          \* the shading mask
    out,            \* the core's result (BGR)
    png,            \* the encoded result (the RGB image the PNG bytes hold)
    error,          \* the exception that ended the run, "none" when none
    response        \* the HTTP response

request == <<entry, query>>

locals == <<h, w, t1, t2, block, shade_strength, hblock>>

masks == <<combo, sk, lines, shade>>

vars == <<pc, entry, query, args, bgr, h, w, line_weight, detail, sharp, t1, t2, block,
          combo, sk, lines, shade_strength, hblock, shade, out, png, error, response>>

NoArgs == [lineWeight |-> 0, detail |-> 0]

NoResponse == [status |-> 0, media_type |-> "", body |-> NoImage]

NoQuery == [lineWeight |-> <<>>, detail |-> <<>>]

QueryValues(S) == {<<>>} \cup {<<v>> : v \in S}

Fresh ==
    /\ h = 0
    /\ w = 0
    /\ line_weight = 0
    /\ detail = 0
    /\ sharp = NoImage
    /\ t1 = 0
    /\ t2 = 0
    /\ block = 0
    /\ combo = NoImage
    /\ sk = NoImage
    /\ lines = NoImage
    /\ shade_strength = 0
    /\ hblock = 0
    /\ shade = NoImage
    /\ out = NoImage
    /\ png = NoImage
    /\ error = "none"
    /\ response = NoResponse

\* a POST /stencil request arrives, or a caller holds a decoded image and
\* two integers
Init ==
    /\ Fresh
    /\ \/ /\ entry = "handler"
          /\ pc = "validate"
          /\ query \in [lineWeight : QueryValues(LineWeights), detail : QueryValues(Details)]
          /\ args = NoArgs
          /\ bgr = NoImage
       \/ /\ entry = "direct"
          /\ pc = "call"
          /\ query = NoQuery
          /\ args \in [lineWeight : LineWeights, detail : Details]
          /\ \E shp \in Shapes : bgr = ShapeOnly(shp[1], shp[2])

\* the exception propagates: the run ends
Fail(kind) ==
    /\ pc' = "done"
    /\ error' = kind

ServerError == [status |-> 500, media_type |-> "text/plain", body |-> NoImage]

(***************************************************************************)
(* The request handler.                                                    *)
(***************************************************************************)
\* Query(default, ...): the default when the parameter is absent
QueryValue(q, default) == IF q = <<>> THEN default ELSE q[1]

\* Query(..., ge=1, le=8)
QueryValid(v) == v >= 1 /\ v <= 8

\* lineWeight: int = Query(3, ge=1, le=8), detail: int = Query(4, ge=1, le=8)
ValidateQuery ==
    /\ pc = "validate"
    /\ LET lw == QueryValue(query.lineWeight, 3)
           d  == QueryValue(query.detail, 4)
       IN  IF QueryValid(lw) /\ QueryValid(d)
           THEN /\ args' = [lineWeight |-> lw, detail |-> d]
                /\ pc' = "decode"
                /\ UNCHANGED <<error, response>>
           ELSE /\ Fail("RequestValidationError")
                /\ response' = [status |-> 422, media_type |-> "application/json",
                                body |-> NoImage]
                /\ UNCHANGED args
    /\ UNCHANGED <<request, bgr, line_weight, detail, sharp, locals, masks, out, png>>

\* data = await file.read(); Image.open(...).convert("RGB"); pil_to_bgr(pil)
ReadAndDecode ==
    /\ pc = "decode"
    /\ \/ /\ \E shp \in Shapes : bgr' = ShapeOnly(shp[1], shp[2])
          /\ pc' = "call"
          /\ UNCHANGED <<error, response>>
       \/ /\ Fail("UnidentifiedImageError")
          /\ response' = ServerError
          /\ UNCHANGED bgr
    /\ UNCHANGED <<request, args, line_weight, detail, sharp, locals, masks, out, png>>

\* def high_quality_stencil(bgr, line_weight, detail)
CoreParameters == <<"bgr", "line_weight", "detail">>

\* the keywords of the call in the handler:
\* high_quality_stencil(bgr, lineWeight=lineWeight, detail=detail)
HandlerKeywords == {"lineWeight", "detail"}

\* Python's binding of a call with n positional arguments and the keywords kw
\* to the parameters params (none has a default)
Binds(params, n, kw) ==
    /\ n <= Len(params)
    /\ \A k \in kw : \E i \in (n + 1)..Len(params) : params[i] = k
    /\ \A i \in (n + 1)..Len(params) : params[i] \in kw

\* the call of the core: from the handler with keywords, from a direct caller
\* with three positional arguments
CallCore ==
    /\ pc = "call"
    /\ LET bound == IF entry = "handler"
                    THEN Binds(CoreParameters, 1, HandlerKeywords)
                    ELSE Binds(CoreParameters, 3, {})
       IN  IF bound
           THEN /\ pc' = "clamp"
                /\ UNCHANGED <<error, response>>
           ELSE /\ Fail("TypeError")
                /\ response' = ServerError
    /\ UNCHANGED <<request, args, bgr, line_weight, detail, sharp, locals, masks, out, png>>

(***************************************************************************)
(* The core, high_quality_stencil.                                         *)
(***************************************************************************)
ClampParams ==
    /\ pc = "clamp"
    /\ line_weight' = clamp(args.lineWeight, 1, 8)
    /\ detail' = clamp(args.detail, 1, 8)
    /\ pc' = "normalize"
    /\ UNCHANGED <<request, args, bgr, sharp, locals, masks, out, png, error, response>>

\* the limit on the longer side
MaxSide == 1400

\* int(side * scale) with scale = 1400 / max_side
ScaledSide(side, max_side) == FloatTrunc(FloatMul(side, FloatDiv(MaxSide, max_side)))

\* the shape after the normalizer, <<>> when cv2.resize raises for an empty
\* destination
NormalizedShape(rows, cols) ==
    LET max_side == max(rows, cols)
    IN  IF max_side > MaxSide
        THEN LET nw == ScaledSide(cols, max_side)
                 nh == ScaledSide(rows, max_side)
             IN  IF nw <= 0 \/ nh <= 0 THEN <<>> ELSE <<[h |-> nh, w |-> nw]>>
        ELSE <<[h |-> rows, w |-> cols]>>

Normalize ==
    /\ pc = "normalize"
    /\ h' = bgr.h
    /\ w' = bgr.w
    /\ LET shp == NormalizedShape(bgr.h, bgr.w)
       IN  IF shp = <<>>
           THEN Fail("cv2.error") /\ UNCHANGED bgr
           ELSE /\ bgr' = ShapeOnly(shp[1].h, shp[1].w)
                /\ pc' = "enhance"
                /\ UNCHANGED error
    /\ UNCHANGED <<request, args, line_weight, detail, sharp, t1, t2, block,
                   shade_strength, hblock, masks, out, png, response>>

\* what the Enhancer may give for an image of the shape: grayscale, bilateral filter,
\* CLAHE and the unsharp mask keep the shape; their sample values are not
\* computed, every tracked image of the shape is a possible result
EnhancedImages(rows, cols) ==
    IF <<rows, cols>> \in PixelShapes
    THEN TrackedImages(rows, cols)
    ELSE {ShapeOnly(rows, cols)}

Enhance ==
    /\ pc = "enhance"
    /\ sharp' \in EnhancedImages(bgr.h, bgr.w)
    /\ pc' = "extract"
    /\ UNCHANGED <<request, args, bgr, line_weight, detail, locals, masks, out, png,
                   error, response>>

ExtractLines ==
    /\ pc = "extract"
    /\ t1' = CannyLow(detail)
    /\ t2' = CannyHigh(detail)
    /\ block' = BlockSize(detail)
    /\ combo' = InkCandidates(sharp, detail)
    /\ pc' = "clean"
    /\ UNCHANGED <<request, args, bgr, h, w, line_weight, detail, sharp, sk, lines,
                   shade_strength, hblock, shade, out, png, error, response>>

CleanMask ==
    /\ pc = "clean"
    /\ combo' = Clean(combo)
    /\ pc' = "skeleton"
    /\ UNCHANGED <<request, args, bgr, line_weight, detail, sharp, locals, sk, lines,
                   shade, out, png, error, response>>

Skeletonize ==
    /\ pc = "skeleton"
    /\ sk' = Skeleton(combo)
    /\ pc' = "render"
    /\ UNCHANGED <<request, args, bgr, line_weight, detail, sharp, locals, combo, lines,
                   shade, out, png, error, response>>

Render ==
    /\ pc = "render"
    /\ lines' = RenderLines(sk, line_weight)
    /\ pc' = "shade"
    /\ UNCHANGED <<request, args, bgr, line_weight, detail, sharp, locals, combo, sk,
                   shade, out, png, error, response>>

\* shade_strength = clamp(...); in add_halftone_shading: if strength <= 0:
\* return np.zeros_like(gray)
Shade ==
    /\ pc = "shade"
    /\ shade_strength' = ShadeStrength6(detail)
    /\ IF ShadeStrength6(detail) <= 0
       THEN /\ shade' = ZerosLike(sharp)
            /\ pc' = "compose"
       ELSE /\ pc' = "halftone"
            /\ UNCHANGED shade
    /\ UNCHANGED <<request, args, bgr, h, w, line_weight, detail, sharp, t1, t2, block, hblock,
                   combo, sk, lines, out, png, error, response>>

HalftoneShade ==
    /\ pc = "halftone"
    /\ hblock' = HalftoneBlock(shade_strength)
    /\ LET dots == Halftone(sharp, shade_strength)
       IN  IF dots = <<>>
           THEN Fail("cv2.error") /\ UNCHANGED shade
           ELSE /\ shade' = dots[1]
                /\ pc' = "compose"
                /\ UNCHANGED error
    /\ UNCHANGED <<request, args, bgr, h, w, line_weight, detail, sharp, t1, t2, block,
                   shade_strength, combo, sk, lines, out, png, response>>

\* ink = cv2.bitwise_or(lines, shade); the purple ink on the white canvas
Compose ==
    /\ pc = "compose"
    /\ out' = Composite(BitwiseOr(lines, shade), bgr.h, bgr.w)
    /\ pc' = "encode"
    /\ UNCHANGED <<request, args, bgr, line_weight, detail, sharp, locals, masks, png,
                   error, response>>

\* png = bgr_to_png_bytes(out); the handler answers
\* Response(content=png, media_type="image/png")
Encode ==
    /\ pc = "encode"
    /\ png' = bgr_to_png_bytes(out)
    /\ response' = IF entry = "handler"
                   THEN [status |-> 200, media_type |-> "image/png",
                         body |-> bgr_to_png_bytes(out)]
                   ELSE response
    /\ pc' = "done"
    /\ UNCHANGED <<request, args, bgr, line_weight, detail, sharp, locals, masks, out,
                   error>>

Next ==
    \/ ValidateQuery
    \/ ReadAndDecode
    \/ CallCore
    \/ ClampParams
    \/ Normalize
    \/ Enhance
    \/ ExtractLines
    \/ CleanMask
    \/ Skeletonize
    \/ Render
    \/ Shade
    \/ HalftoneShade
    \/ Compose
    \/ Encode

Spec == Init /\ [][Next]_vars

(***************************************************************************)
(* The core from the Enhancer's output on, as one function of the image    *)
(* and the two clamped parameters: what the steps above compute one by one. *)
(***************************************************************************)
CoreResult(img, lw, d) ==
    LET rendered == RenderLines(Skeleton(Clean(InkCandidates(img, d))), lw)
        strength == ShadeStrength6(d)
        dots     == IF strength <= 0 THEN <<ZerosLike(img)>> ELSE Halftone(img, strength)
    IN  IF dots = <<>>
        THEN [error |-> "cv2.error", out |-> NoImage]
        ELSE [error |-> "none",
              out   |-> Composite(BitwiseOr(rendered, dots[1]), img.h, img.w)]

(***************************************************************************)
(* The claims.                                                             *)
(***************************************************************************)
\* v brought into 1..8, written out
Into1To8(v) == IF v < 1 THEN 1 ELSE IF v > 8 THEN 8 ELSE v

\* the core has run past the normalizer and the Enhancer
Enhanced == sharp # NoImage

\* the Shader has been entered
ShaderEntered == pc \in {"halftone", "compose", "encode"} \/ (pc = "done" /\ lines # NoImage)

\* C1: a POST /stencil request with a decodable image ends without an error,
\* in a 200 response of media type image/png whose body is the PNG of the
\* core's result, the core having been called with the two query values.
C1_HandlerAnswersPng ==
    (entry = "handler" /\ pc = "done" /\ bgr # NoImage) =>
        /\ error = "none"
        /\ line_weight = args.lineWeight
        /\ detail = args.detail
        /\ png # NoImage
        /\ response = [status |-> 200, media_type |-> "image/png", body |-> png]

\* a request with a decodable image and the default parameters has ended
C1_DefaultRequestEnded ==
    /\ entry = "handler"
    /\ pc = "done"
    /\ bgr # NoImage
    /\ query = NoQuery
    /\ args = [lineWeight |-> 3, detail |-> 4]

\* C2: the result of high_quality_stencil(image, lw, d), an image or an
\* error, is the result for clamp(lw, 1, 8) and clamp(d, 1, 8): lineWeight 0
\* gives what 1 gives, detail 99 what 8 gives.
C2_ClampEquivalence ==
    (entry = "direct" /\ pc = "done" /\ Enhanced) =>
        LET r == CoreResult(sharp, Into1To8(args.lineWeight), Into1To8(args.detail))
        IN  /\ error = r.error
            /\ out = r.out

\* a call with lineWeight 0 and detail 99 has returned an image with ink
C2_OutOfRangeCallReturned ==
    /\ entry = "direct"
    /\ pc = "done"
    /\ args = [lineWeight |-> 0, detail |-> 99]
    /\ error = "none"
    /\ Tracked(out)
    /\ \E p \in Pixels(out) : out.px[p[1]][p[2]] # White

\* the query carries a value outside 1..8
OutOfRange(q) == q # <<>> /\ ~(q[1] >= 1 /\ q[1] <= 8)

\* C3: an out-of-range lineWeight or detail is never rejected: a direct call
\* works with the value brought into 1..8, and a POST /stencil request with
\* such a value ends in no parameter error.
C3_OutOfRangeNeverRejected ==
    /\ (entry = "direct" /\ pc \notin {"call", "clamp"}) =>
           /\ line_weight = Into1To8(args.lineWeight)
           /\ detail = Into1To8(args.detail)
    /\ (entry = "handler" /\ pc = "done"
            /\ (OutOfRange(query.lineWeight) \/ OutOfRange(query.detail))) =>
           /\ error # "RequestValidationError"
           /\ response.status # 422

\* a request with lineWeight = 0 has ended
C3_OutOfRangeRequestEnded ==
    /\ entry = "handler"
    /\ pc = "done"
    /\ query.lineWeight = <<0>>

\* C4: the normalizer fails for no image of positive size; an image whose
\* longer side exceeds 1400 leaves it with the longer side equal to 1400 and
\* both sides positive, any other image leaves it with its shape unchanged.
C4_NormalizerMaxSide1400 ==
    (h > 0 /\ w > 0) =>
        /\ ~(pc = "done" /\ ~Enhanced)
        /\ IF max(h, w) > 1400
           THEN /\ max(bgr.h, bgr.w) = 1400
                /\ bgr.h > 0
                /\ bgr.w > 0
           ELSE /\ bgr.h = h
                /\ bgr.w = w

\* the normalizer has acted on an image with a side above 1400
C4_LargeImageNormalized == h > 0 /\ w > 0 /\ max(h, w) > 1400

\* C5: for every image of positive size and lineWeight, detail in 1..8 the
\* pipeline completes, and the final image and the Shader's mask have the
\* normalizer's shape, also for images smaller than the halftone block.
C5_PipelineKeepsShape ==
    (entry = "direct" /\ pc = "done" /\ Enhanced
        /\ args.lineWeight \in 1..8 /\ args.detail \in 1..8) =>
        /\ error = "none"
        /\ out.h = bgr.h
        /\ out.w = bgr.w
        /\ shade.h = bgr.h
        /\ shade.w = bgr.w

\* a run on an image narrower than the halftone block has ended
C5_SmallImageRunEnded ==
    /\ entry = "direct"
    /\ pc = "done"
    /\ Enhanced
    /\ args.detail \in 3..8
    /\ hblock > bgr.w

\* C6: for detail <= 2 the shading strength clamp((detail - 2) / 6, 0, 1) is
\* <= 0, the halftone synthesis does not run, the Shader's mask has no ink
\* and the final ink is the line mask; for detail in 3..8 the strength is
\* > 0 and the halftone synthesis runs.
C6_ShadingGate ==
    ShaderEntered =>
        /\ shade_strength = (IF detail - 2 < 0 THEN 0 ELSE IF detail - 2 > 6 THEN 6
                             ELSE detail - 2)
        /\ detail <= 2 =>
               /\ shade_strength <= 0
               /\ pc # "halftone"
               /\ hblock = 0
               /\ error = "none"
               /\ shade.h = sharp.h
               /\ shade.w = sharp.w
               /\ Tracked(shade) =>
                      /\ InkCount(shade) = 0
                      /\ BitwiseOr(lines, shade) = lines
               /\ out # NoImage => out = Composite(lines, bgr.h, bgr.w)
        /\ detail \in 3..8 =>
               /\ shade_strength > 0
               /\ pc = "halftone" \/ hblock # 0

\* a run with detail 2 has composed an image whose lines hold ink
C6_LowDetailComposed ==
    /\ pc = "done"
    /\ detail = 2
    /\ Tracked(lines)
    /\ InkCount(lines) > 0
    /\ Tracked(out)

\* C7: every pixel of the final image is white (255, 255, 255) or the ink
\* colour, the ink colour exactly where the line mask or the shading mask
\* has ink; the ink is (255, 90, 140) in the core's BGR order and reaches
\* the encoded output as RGB (140, 90, 255).
C7_CompositorColours ==
    (pc \in {"encode", "done"} /\ out # NoImage) =>
        /\ out.h = lines.h /\ out.w = lines.w
        /\ pc = "done" => (png.h = out.h /\ png.w = out.w /\ Tracked(png) = Tracked(out))
        /\ Tracked(out) = (Tracked(lines) /\ Tracked(shade))
        /\ Tracked(out) =>
               \A p \in Pixels(out) :
                   LET y     == p[1]
                       x     == p[2]
                       inked == lines.px[y][x] # 0 \/ shade.px[y][x] # 0
                   IN  /\ out.px[y][x] \in {<<255, 255, 255>>, <<255, 90, 140>>}
                       /\ (out.px[y][x] = <<255, 90, 140>>) = inked
                       /\ pc = "done" =>
                              png.px[y][x] = (IF inked THEN <<140, 90, 255>>
                                              ELSE <<255, 255, 255>>)

\* an image has been encoded in which one pixel is ink from the shading mask
\* alone, one is ink from the line mask and one is white
C7_BothMasksEncoded ==
    /\ pc = "done"
    /\ Tracked(png)
    /\ \E p \in Pixels(png) : lines.px[p[1]][p[2]] = 0 /\ shade.px[p[1]][p[2]] # 0
    /\ \E p \in Pixels(png) : lines.px[p[1]][p[2]] # 0
    /\ \E p \in Pixels(png) : png.px[p[1]][p[2]] = White

\* C8: for the skeleton at hand and all line weights 1 <= a < b <= 8 the
\* Line Renderer's mask for b has at least as many ink pixels as the one for
\* a; with line weight 1 the line mask is the skeleton.
C8_MonotonicLineWeight ==
    (pc = "shade" /\ Tracked(sk)) =>
        LET ink == SubSeq([k \in 1..8 |-> InkCount(RenderLines(sk, k))], 1, 8)
        IN  /\ \A a \in 1..8 : \A b \in 1..8 : a < b => ink[a] <= ink[b]
            /\ RenderLines(sk, 1) = sk
            /\ InkCount(lines) = ink[line_weight]

\* a skeleton with ink has been rendered with line weight 8 into more ink
C8_SkeletonThickened ==
    /\ pc = "shade"
    /\ Tracked(sk)
    /\ InkCount(sk) > 0
    /\ line_weight = 8
    /\ InkCount(lines) > InkCount(sk)

\* C9: for the image at hand and all detail values d1 < d2 in 1..8 the
\* ink-candidate mask for d2 has at least as many ink pixels as the one for
\* d1.
C9_CandidatesGrowWithDetail ==
    (pc = "clean" /\ Tracked(sharp)) =>
        \A d2 \in 1..8 :
            d2 > detail => InkCount(InkCandidates(sharp, d2)) >= InkCount(combo)

\* the Line Extractor has produced ink candidates at a detail below 8
C9_CandidatesExtracted ==
    /\ pc = "clean"
    /\ Tracked(sharp)
    /\ detail < 8
    /\ InkCount(combo) > 0

\* C10: the neighbourhood size of the adaptive threshold is odd, lies in
\* 15..31, equals clamp(31 - 2 * detail, 15, 31), which forcing it odd does
\* not change, and is strictly smaller for every higher detail.
C10_BlockSizeOddShrinking ==
    block # 0 =>
        /\ block % 2 = 1
        /\ block >= 15
        /\ block <= 31
        /\ block = (IF 31 - 2 * detail < 15 THEN 15 ELSE IF 31 - 2 * detail > 31 THEN 31
                    ELSE 31 - 2 * detail)
        /\ \A d2 \in 1..8 : d2 > detail => BlockSize(d2) < block
        /\ \A d1 \in 1..8 : d1 < detail => BlockSize(d1) > block

\* the Line Extractor has run with detail 8 and the smallest neighbourhood
C10_SmallestBlockUsed ==
    /\ pc = "clean"
    /\ detail = 8
    /\ block = 15
====
